---- MODULE Spec2Model ----
(***************************************************************************)
(* Word Ladder Adventure (src/Word-Ladder-Game.py): the word graph built   *)
(* by build_word_graph, the three searches, check_path_exists and the      *)
(* handlers of WordLadderGame that drive them.                             *)
(*                                                                         *)
(* A word is a sequence of letters; a letter is a number 1..NumLetters     *)
(* ('a' = 1, 'b' = 2, ...), so that Python's string order is the           *)
(* lexicographic order of the sequences.  The empty string is <<>>.        *)
(* word_graph is a defaultdict(list): a function from its keys to          *)
(* adjacency lists, where reading a missing key inserts it.                *)
(***************************************************************************)
EXTENDS Integers, Sequences, FiniteSets, TLC

\* ---------------------------------------------------------------- bounds
\* Size of the alphabet the substitution loop ranges over (26 in the source).
NumLetters == 4
\* Largest Beginner dictionary drawn by Init.
MaxDictSize == 6

\* ------------------------------------------------------ program constants
BannedSample == 5
RestrictedSample == 3
max_attempts == 100
BeginnerMaxMoves == 10
AdvancedMaxMoves == 15
ChallengeMaxMoves == 12

Alphabet == 1..NumLetters
Modes == {"Beginner", "Advanced", "Challenge"}
Algorithms == {"A*", "UCS", "BFS"}

difficulty_levels ==
  [m \in Modes |->
     [max_moves |-> CASE m = "Beginner" -> BeginnerMaxMoves
                      [] m = "Advanced" -> AdvancedMaxMoves
                      [] OTHER -> ChallengeMaxMoves,
      obstacles |-> (m = "Challenge")]]

\* ------------------------------------------------------------ dictionaries
\* load_dictionaries puts every non-empty, non-'#' line of dictionary.txt in
\* the set of its section, whatever its length: a tier's dictionary is any
\* finite set of non-empty words, and a word may stand in two tiers.  Init
\* draws the three sets from the families below.

\* Two squares of the cube of three-letter words that share an edge.
BeginnerWords ==
  {<<1, 1, 1>>, <<1, 1, 2>>, <<1, 2, 1>>, <<1, 2, 2>>, <<2, 2, 1>>, <<2, 2, 2>>}

BeginnerDicts == {D \in SUBSET BeginnerWords : Cardinality(D) <= MaxDictSize}

\* an empty tier, one of single letters, one of mixed lengths
AdvancedDicts ==
  { {},
    {<<1>>, <<2>>, <<3>>},
    {<<1, 1>>, <<1, 2>>, <<2>>} }

\* random.sample(list(current_dict), 5) needs five words: tiers that do not
\* have them, ...
SmallChallengeDicts ==
  { {},
    {<<1, 1>>, <<1, 2>>, <<2, 2>>} }

\* ... a tier that keeps one word after the sample and shares two words
\* with the Beginner tier of its file, ...
SharedWords == {<<1, 1>>, <<1, 2>>}
ChallengeSix == SharedWords \cup {<<2, 1>>, <<2, 2>>, <<1, 3>>, <<3, 1>>}

\* ... and a tier that keeps two.
ChallengeSeven == {<<1, 1>>, <<1, 2>>, <<2, 1>>, <<2, 2>>, <<1, 3>>, <<3, 1>>, <<3, 3>>}

SmallBeginner == {<<1, 1, 1>>, <<1, 1, 2>>}
SmallAdvanced == {<<1>>, <<2>>}

\* {bat, cat, hat, hot, dot}: the letters that occur at a position are
\* numbered in alphabetical order (b, c, d, h at the first, a, o at the second,
\* t at the third), which keeps the order and the adjacency of the words.
bat == <<1, 1, 1>>
cat == <<2, 1, 1>>
hat == <<4, 1, 1>>
hot == <<4, 2, 1>>
dot == <<3, 2, 1>>
ExampleWords == {cat, bat, hat, hot, dot}

MkDicts(b, a, c) == [m \in Modes |-> CASE m = "Beginner" -> b
                                       [] m = "Advanced" -> a
                                       [] OTHER -> c]

\* One tier varies at a time.
DictionaryFiles ==
  {MkDicts(b, {}, {}) : b \in BeginnerDicts}
    \cup {MkDicts(SmallBeginner, a, {}) : a \in AdvancedDicts}
    \cup {MkDicts(SmallBeginner, {}, c) : c \in SmallChallengeDicts}
    \cup {MkDicts(SharedWords, {}, ChallengeSix)}
    \cup {MkDicts(SmallBeginner, SmallAdvanced, ChallengeSeven)}
    \cup {MkDicts(ExampleWords, {}, {})}

\* --------------------------------------------------------------- the graph
\* defaultdict(list).__getitem__: the list of a key, [] for a missing key ...
Lookup(g, w) == IF w \in DOMAIN g THEN g[w] ELSE <<>>
\* ... and the missing key is inserted with an empty list.
Touch(g, w) == IF w \in DOMAIN g THEN g ELSE g @@ (w :> <<>>)

EmptyGraph == [w \in {} |-> <<>>]

\* word[:i] + c + word[i+1:]
Substitute(word, i, c) == [word EXCEPT ![i] = c]

\* Candidates with range(1, len(word)): the first position is never changed.
CandidatesSkipFirst(word) ==
  [k \in 1..((Len(word) - 1) * NumLetters) |->
     [i |-> ((k - 1) \div NumLetters) + 2, c |-> ((k - 1) % NumLetters) + 1]]

\* The (i, c) pairs of the two inner loops of build_word_graph, in loop order.
Candidates(word) ==
  [k \in 1..(Len(word) * NumLetters) |->
     [i |-> ((k - 1) \div NumLetters) + 1, c |-> ((k - 1) % NumLetters) + 1]]

\* AdjList without the test `new_word != word`.
AdjListSelf(word, current_dict, mode, restricted) ==
  LET Keep(p) == /\ ~(mode = "Challenge" /\ p.c \in restricted)
                 /\ Substitute(word, p.i, p.c) \in current_dict
      kept == SelectSeq(Candidates(word), Keep)
  IN [k \in 1..Len(kept) |-> Substitute(word, kept[k].i, kept[k].c)]

\* AdjList without the skip of the restricted letters.
AdjListUnrestricted(word, current_dict, mode, restricted) ==
  LET Keep(p) == /\ Substitute(word, p.i, p.c) \in current_dict
                 /\ Substitute(word, p.i, p.c) # word
      kept == SelectSeq(Candidates(word), Keep)
  IN [k \in 1..Len(kept) |-> Substitute(word, kept[k].i, kept[k].c)]

\* AdjList without the membership test `new_word in current_dict`.
AdjListAnyWord(word, current_dict, mode, restricted) ==
  LET Keep(p) == /\ ~(mode = "Challenge" /\ p.c \in restricted)
                 /\ Substitute(word, p.i, p.c) # word
      kept == SelectSeq(Candidates(word), Keep)
  IN [k \in 1..Len(kept) |-> Substitute(word, kept[k].i, kept[k].c)]

\* The words build_word_graph appends to word_graph[word], in order.
AdjList(word, current_dict, mode, restricted) ==
  LET Keep(p) == /\ ~(mode = "Challenge" /\ p.c \in restricted)
                 /\ Substitute(word, p.i, p.c) \in current_dict
                 /\ Substitute(word, p.i, p.c) # word
      kept == SelectSeq(Candidates(word), Keep)
  IN [k \in 1..Len(kept) |-> Substitute(word, kept[k].i, kept[k].c)]

\* BuildGraph with a key for every word of current_dict.
BuildGraphTotal(current_dict, mode, restricted) ==
  [w \in current_dict |-> AdjList(w, current_dict, mode, restricted)]

\* The loop of build_word_graph over current_dict: word_graph[word].append
\* creates the key of a word at its first neighbour, so a word without
\* neighbours gets no key.
BuildGraph(current_dict, mode, restricted) ==
  LET keys == {w \in current_dict : AdjList(w, current_dict, mode, restricted) # <<>>}
  IN [w \in keys |-> AdjList(w, current_dict, mode, restricted)]

\* current_dict as build_word_graph narrows it (lines 373-379).
EffectiveDict(dict, mode, banned) == IF mode = "Challenge" THEN dict \ banned ELSE dict

\* ------------------------------------------------------------- the searches
\* Python's None, as the cost of (None, None).
None == -1
\* return None, None
NoPath == [found |-> FALSE, cost |-> None, path |-> <<>>]
\* return cost, path
Found(cost, path) == [found |-> TRUE, cost |-> cost, path |-> path]

Min(a, b) == IF a <= b THEN a ELSE b

\* Python's < on strings: lexicographic, a proper prefix is smaller.
WordLess(a, b) ==
  \E k \in 1..(Min(Len(a), Len(b)) + 1) :
     /\ \A j \in 1..(k - 1) : a[j] = b[j]
     /\ \/ k > Len(a) /\ k <= Len(b)
        \/ k <= Len(a) /\ k <= Len(b) /\ a[k] < b[k]

\* Python's < on lists of strings.
PathLess(p, q) ==
  \E k \in 1..(Min(Len(p), Len(q)) + 1) :
     /\ \A j \in 1..(k - 1) : p[j] = q[j]
     /\ \/ k > Len(p) /\ k <= Len(q)
        \/ k <= Len(p) /\ k <= Len(q) /\ WordLess(p[k], q[k])

\* Python's < on the heap entries (priority, cost, word, path) of a_star_search.
AStarEntryLess(s, t) ==
  \/ s[1] < t[1]
  \/ s[1] = t[1] /\ s[2] < t[2]
  \/ s[1] = t[1] /\ s[2] = t[2] /\ WordLess(s[3], t[3])
  \/ s[1] = t[1] /\ s[2] = t[2] /\ s[3] = t[3] /\ PathLess(s[4], t[4])

\* Python's < on the heap entries (cost, word, path) of uniform_cost_search.
UcsEntryLess(s, t) ==
  \/ s[1] < t[1]
  \/ s[1] = t[1] /\ WordLess(s[2], t[2])
  \/ s[1] = t[1] /\ s[2] = t[2] /\ PathLess(s[3], t[3])

\* sum(1 for a, b in zip(word, self.target_word) if a != b): zip stops at the
\* shorter word.
heuristic(word, target) ==
  Cardinality({k \in 1..Min(Len(word), Len(target)) : word[k] # target[k]})

Range(seq) == {seq[k] : k \in 1..Len(seq)}

\* a_star_loop with the heap entry unpacked as (cost, _, current, path): the
\* priority is taken for the cost.
RECURSIVE a_star_loop_swapped(_, _, _, _)
a_star_loop_swapped(g, goal, frontier, explored) ==
  IF frontier = {} THEN [ret |-> NoPath, graph |-> g]
  ELSE
    LET top == CHOOSE t \in frontier : \A u \in frontier \ {t} : AStarEntryLess(t, u)
        rest == frontier \ {top}
        cost == top[1]
        current == top[3]
        path == top[4]
    IN IF current = goal THEN [ret |-> Found(cost, path), graph |-> g]
       ELSE IF current \in explored THEN a_star_loop_swapped(g, goal, rest, explored)
       ELSE
         LET explored2 == explored \cup {current}
             g2 == Touch(g, current)
             pushed == {<<cost + 1 + heuristic(next_word, goal), cost + 1, next_word,
                          Append(path, next_word)>> :
                          next_word \in Range(g2[current]) \ explored2}
         IN a_star_loop_swapped(g2, goal, rest \cup pushed, explored2)

\* The while loop of a_star_search.  The heap is the set of its entries:
\* heappop takes the least entry, and an entry pushed twice is popped the
\* second time with its word explored, which the loop skips.
RECURSIVE a_star_loop(_, _, _, _)
a_star_loop(g, goal, frontier, explored) ==
  IF frontier = {} THEN [ret |-> NoPath, graph |-> g]
  ELSE
    LET top == CHOOSE t \in frontier : \A u \in frontier \ {t} : AStarEntryLess(t, u)
        rest == frontier \ {top}
        cost == top[2]
        current == top[3]
        path == top[4]
    IN IF current = goal THEN [ret |-> Found(cost, path), graph |-> g]
       ELSE IF current \in explored THEN a_star_loop(g, goal, rest, explored)
       ELSE
         LET explored2 == explored \cup {current}
             g2 == Touch(g, current)
             pushed == {<<cost + 1 + heuristic(next_word, goal), cost + 1, next_word,
                          Append(path, next_word)>> :
                          next_word \in Range(g2[current]) \ explored2}
         IN a_star_loop(g2, goal, rest \cup pushed, explored2)

a_star_search(g, start, goal) ==
  a_star_loop(g, goal, {<<heuristic(start, goal), 0, start, <<start>>>>}, {})

\* The while loop of uniform_cost_search; the heap as in a_star_loop.
RECURSIVE ucs_loop(_, _, _, _)
ucs_loop(g, goal, frontier, explored) ==
  IF frontier = {} THEN [ret |-> NoPath, graph |-> g]
  ELSE
    LET top == CHOOSE t \in frontier : \A u \in frontier \ {t} : UcsEntryLess(t, u)
        rest == frontier \ {top}
        cost == top[1]
        current == top[2]
        path == top[3]
    IN IF current = goal THEN [ret |-> Found(cost, path), graph |-> g]
       ELSE IF current \in explored THEN ucs_loop(g, goal, rest, explored)
       ELSE
         LET explored2 == explored \cup {current}
             g2 == Touch(g, current)
             pushed == {<<cost + 1, next_word, Append(path, next_word)>> :
                          next_word \in Range(g2[current]) \ explored2}
         IN ucs_loop(g2, goal, rest \cup pushed, explored2)

uniform_cost_search(g, start, goal) ==
  ucs_loop(g, goal, {<<0, start, <<start>>>>}, {})

\* bfs_expand with queue.appendleft: the queue is a stack.
RECURSIVE bfs_expand_stack(_, _, _, _, _)
bfs_expand_stack(adj, k, path, queue, explored) ==
  IF k > Len(adj) THEN [queue |-> queue, explored |-> explored]
  ELSE IF adj[k] \notin explored
       THEN bfs_expand_stack(adj, k + 1, path,
                             <<<<adj[k], Append(path, adj[k])>>>> \o queue,
                             explored \cup {adj[k]})
       ELSE bfs_expand_stack(adj, k + 1, path, queue, explored)

\* The for loop of breadth_first_search over word_graph[current], from its
\* k-th element on.
RECURSIVE bfs_expand(_, _, _, _, _)
bfs_expand(adj, k, path, queue, explored) ==
  IF k > Len(adj) THEN [queue |-> queue, explored |-> explored]
  ELSE IF adj[k] \notin explored
       THEN bfs_expand(adj, k + 1, path,
                       Append(queue, <<adj[k], Append(path, adj[k])>>),
                       explored \cup {adj[k]})
       ELSE bfs_expand(adj, k + 1, path, queue, explored)

\* The while loop of breadth_first_search.
RECURSIVE bfs_loop(_, _, _, _)
bfs_loop(g, goal, queue, explored) ==
  IF queue = <<>> THEN [ret |-> NoPath, graph |-> g]
  ELSE
    LET current == Head(queue)[1]
        path == Head(queue)[2]
    IN IF current = goal THEN [ret |-> Found(Len(path) - 1, path), graph |-> g]
       ELSE
         LET g2 == Touch(g, current)
             e == bfs_expand(g2[current], 1, path, Tail(queue), explored)
         IN bfs_loop(g2, goal, e.queue, e.explored)

breadth_first_search(g, start, goal) ==
  bfs_loop(g, goal, <<<<start, <<start>>>>>>, {start})

\* The for loop of check_path_exists over word_graph[word], from its k-th
\* element on: hit is "return True".
RECURSIVE cpe_expand(_, _, _, _, _)
cpe_expand(adj, k, target, queue, visited) ==
  IF k > Len(adj) THEN [hit |-> FALSE, queue |-> queue, visited |-> visited]
  ELSE IF adj[k] = target THEN [hit |-> TRUE, queue |-> queue, visited |-> visited]
  ELSE IF adj[k] \notin visited
       THEN cpe_expand(adj, k + 1, target, Append(queue, adj[k]), visited \cup {adj[k]})
       ELSE cpe_expand(adj, k + 1, target, queue, visited)

\* cpe_loop with `return False` inside the while loop: only the neighbours
\* of start are looked at.
cpe_loop_shallow(g, target, queue, visited) ==
  IF queue = <<>> THEN [ret |-> FALSE, graph |-> g]
  ELSE
    LET word == Head(queue)
        g2 == Touch(g, word)
        e == cpe_expand(g2[word], 1, target, Tail(queue), visited)
    IN [ret |-> e.hit, graph |-> g2]

\* The while loop of check_path_exists.
RECURSIVE cpe_loop(_, _, _, _)
cpe_loop(g, target, queue, visited) ==
  IF queue = <<>> THEN [ret |-> FALSE, graph |-> g]
  ELSE
    LET word == Head(queue)
        g2 == Touch(g, word)
        e == cpe_expand(g2[word], 1, target, Tail(queue), visited)
    IN IF e.hit THEN [ret |-> TRUE, graph |-> g2]
       ELSE cpe_loop(g2, target, e.queue, e.visited)

\* check_path_exists without `if start == target: return True`.
check_path_exists_no_shortcut(g, start, target) ==
  cpe_loop(g, target, <<start>>, {start})

check_path_exists(g, start, target) ==
  IF start = target THEN [ret |-> TRUE, graph |-> g]
  ELSE cpe_loop(g, target, <<start>>, {start})

\* get_hint's dispatch on the algorithm name.
RunSearch(algorithm, g, start, goal) ==
  CASE algorithm = "A*" -> a_star_search(g, start, goal)
    [] algorithm = "UCS" -> uniform_cost_search(g, start, goal)
    [] OTHER -> breadth_first_search(g, start, goal)

\* ------------------------------------------------------------------- state
VARIABLES
  dictionaries,        \* self.dictionaries: tier -> set of words
  word_graph,          \* self.word_graph
  current_word,        \* self.current_word
  target_word,         \* self.target_word
  moves,               \* self.moves
  max_moves,           \* self.max_moves
  game_mode,           \* self.game_mode
  banned_words,        \* self.banned_words
  restricted_letters,  \* self.restricted_letters
  phase,               \* "constructed" after __init__; "mainloop" while Tk waits for an
                       \* event; "handler" when run() or an event handler has returned
  ret                  \* what that handler called and what the calls returned

vars == <<dictionaries, word_graph, current_word, target_word, moves, max_moves,
          game_mode, banned_words, restricted_letters, phase, ret>>

\* The observation of a handler: its name, the exception it ended with, the
\* kinds of entries build_word_graph found and left no key for, the graph as
\* build_word_graph left it, the word
\* make_move read, len(self.moves) and self.max_moves as it compared them,
\* the target word it compared with, the arguments and the result of its
\* last check_path_exists call, and the results of the searches it ran.
Observe(op) ==
  [op |-> op, raised |-> "none", outcome |-> "none",
   dropped |-> {}, built |-> EmptyGraph,
   word |-> <<>>, count |-> 0, limit |-> 0,
   start |-> <<>>, target |-> <<>>, exists |-> FALSE,
   results |-> [a \in Algorithms |-> NoPath], hint |-> <<>>]

\* --------------------------------------------------------- build_word_graph
\* The outcomes of build_word_graph: the graph, the exclusion policy it
\* leaves, and the exception random.sample raises on a population smaller
\* than the sample (after word_graph.clear()).
build_word_graph(dict, mode, banned, restricted) ==
  IF mode = "Challenge"
  THEN IF Cardinality(dict) < BannedSample
       THEN {[raised |-> "ValueError", graph |-> EmptyGraph,
              banned_words |-> banned, restricted_letters |-> restricted]}
       ELSE IF NumLetters < RestrictedSample
       THEN {[raised |-> "ValueError", graph |-> EmptyGraph,
              banned_words |-> b, restricted_letters |-> restricted] :
               b \in {x \in SUBSET dict : Cardinality(x) = BannedSample}}
       ELSE {[raised |-> "none", graph |-> BuildGraph(dict \ br[1], mode, br[2]),
              banned_words |-> br[1], restricted_letters |-> br[2]] :
               br \in {x \in SUBSET dict : Cardinality(x) = BannedSample}
                        \X {x \in SUBSET Alphabet : Cardinality(x) = RestrictedSample}}
  ELSE {[raised |-> "none", graph |-> BuildGraph(dict, mode, restricted),
         banned_words |-> banned, restricted_letters |-> restricted]}

\* ----------------------------------------------------------- start_new_game
\* One pass of the sampling loop from graph h with current word cur: the
\* (graph, target) pairs with which the loop goes on, and those with which
\* it breaks.
AttemptOn(h, cur, valid_words) ==
  {IF t = cur
     THEN [broke |-> FALSE, graph |-> h, target |-> t]
     ELSE LET r == check_path_exists(h, cur, t)
          IN [broke |-> r.ret, graph |-> r.graph, target |-> t] :
   t \in valid_words}

\* The while loop of start_new_game: going is the set of (graph, target)
\* pairs after `attempts` failed attempts, broke the set of pairs the loop
\* has broken with.  Once a pass leaves `going` as it was every later pass
\* does, so the remaining passes are not unfolded.
RECURSIVE sampling_loop(_, _, _, _, _)
sampling_loop(attempts, going, broke, cur, valid_words) ==
  IF attempts >= max_attempts THEN [going |-> going, broke |-> broke]
  ELSE
    LET pass == UNION {AttemptOn(h, cur, valid_words) : h \in {s.graph : s \in going}}
        going2 == {[graph |-> a.graph, target |-> a.target] : a \in {x \in pass : ~x.broke}}
        broke2 == broke \cup
                  {[graph |-> a.graph, target |-> a.target] : a \in {x \in pass : x.broke}}
    IN IF going2 = going
       THEN [going |-> going, broke |-> broke2]
       ELSE sampling_loop(attempts + 1, going2, broke2, cur, valid_words)

\* The outcomes of start_new_game on graph g.
start_new_game(g, dict, banned, cur0, target0) ==
  LET valid_words == dict \ banned
  IN IF Cardinality(valid_words) < 2
     THEN {[outcome |-> "not enough words", graph |-> g,
            current_word |-> cur0, target_word |-> target0]}
     ELSE UNION {
            LET l == sampling_loop(0, {[graph |-> g, target |-> target0]}, {}, cur, valid_words)
            IN {[outcome |-> "started", graph |-> b.graph,
                 current_word |-> cur, target_word |-> b.target] : b \in l.broke}
               \cup
               {[outcome |-> "no pair", graph |-> e.graph,
                 current_word |-> cur, target_word |-> e.target] : e \in l.going}
            : cur \in valid_words}

\* ---------------------------------------------------------------- handlers
Init ==
  /\ dictionaries \in DictionaryFiles
  /\ word_graph = EmptyGraph
  /\ current_word = <<>>
  /\ target_word = <<>>
  /\ moves = <<>>
  /\ max_moves = 0
  /\ game_mode = "Beginner"
  /\ banned_words = {}
  /\ restricted_letters = {}
  /\ phase = "constructed"
  /\ ret = Observe("__init__")

\* The kinds of entries of graph `old` whose word has no key in graph `new`:
\* lists a build had filled, and keys a read had inserted.
Dropped(old, new) ==
  {IF old[w] = <<>> THEN "inserted" ELSE "built" : w \in DOMAIN old \ DOMAIN new}

\* BuildAndStart without self.word_graph.clear(): the lists of the build are
\* appended to the entries the graph had.
BuildAndStartNoClear(op, mode) ==
  \E b \in build_word_graph(dictionaries[mode], mode, banned_words, restricted_letters) :
    LET kept == [w \in DOMAIN word_graph \cup DOMAIN b.graph |->
                   Lookup(word_graph, w) \o Lookup(b.graph, w)]
    IN
    /\ game_mode' = mode
    /\ banned_words' = b.banned_words
    /\ restricted_letters' = b.restricted_letters
    /\ IF b.raised # "none"
       THEN /\ word_graph' = word_graph
            /\ UNCHANGED <<current_word, target_word, moves, max_moves>>
            /\ ret' = [Observe(op) EXCEPT !.raised = b.raised,
                                          !.dropped = Dropped(word_graph, word_graph')]
       ELSE \E s \in start_new_game(kept, dictionaries[mode], b.banned_words,
                                    current_word, target_word) :
              /\ word_graph' = s.graph
              /\ current_word' = s.current_word
              /\ target_word' = s.target_word
              /\ moves' = <<>>
              /\ max_moves' = difficulty_levels[mode].max_moves
              /\ ret' = [Observe(op) EXCEPT !.dropped = Dropped(word_graph, kept),
                                            !.built = kept,
                                            !.outcome = s.outcome]

\* build_word_graph() then start_new_game(), as run and change_game_mode call
\* them; an exception of build_word_graph ends the handler.
BuildAndStart(op, mode) ==
  \E b \in build_word_graph(dictionaries[mode], mode, banned_words, restricted_letters) :
    /\ game_mode' = mode
    /\ banned_words' = b.banned_words
    /\ restricted_letters' = b.restricted_letters
    /\ IF b.raised # "none"
       THEN /\ word_graph' = b.graph
            /\ UNCHANGED <<current_word, target_word, moves, max_moves>>
            /\ ret' = [Observe(op) EXCEPT !.raised = b.raised,
                                          !.dropped = Dropped(word_graph, word_graph')]
       ELSE \E s \in start_new_game(b.graph, dictionaries[mode], b.banned_words,
                                    current_word, target_word) :
              /\ word_graph' = s.graph
              /\ current_word' = s.current_word
              /\ target_word' = s.target_word
              /\ moves' = <<>>
              /\ max_moves' = difficulty_levels[mode].max_moves
              /\ ret' = [Observe(op) EXCEPT !.dropped = Dropped(word_graph, b.graph),
                                            !.built = b.graph,
                                            !.outcome = s.outcome]

\* run(), up to its call of root.mainloop().
run ==
  /\ phase = "constructed"
  /\ phase' = "handler"
  /\ BuildAndStart("run", game_mode)
  /\ UNCHANGED dictionaries

\* Tk takes the next event: the handler has returned and what it saw is gone.
mainloop ==
  /\ phase = "handler"
  /\ phase' = "mainloop"
  /\ ret' = Observe("mainloop")
  /\ UNCHANGED <<dictionaries, word_graph, current_word, target_word, moves, max_moves,
                 game_mode, banned_words, restricted_letters>>

change_game_mode(mode) ==
  /\ phase = "mainloop"
  /\ phase' = "handler"
  /\ BuildAndStart("change_game_mode", mode)
  /\ UNCHANGED dictionaries

\* The New Game button and menu entry.
new_game ==
  /\ phase = "mainloop"
  /\ phase' = "handler"
  /\ \E s \in start_new_game(word_graph, dictionaries[game_mode], banned_words,
                             current_word, target_word) :
       /\ word_graph' = s.graph
       /\ current_word' = s.current_word
       /\ target_word' = s.target_word
       /\ ret' = [Observe("start_new_game") EXCEPT !.outcome = s.outcome]
  /\ moves' = <<>>
  /\ max_moves' = difficulty_levels[game_mode].max_moves
  /\ UNCHANGED <<dictionaries, game_mode, banned_words, restricted_letters>>

\* What the player types in an entry of the dialog: the current word, the
\* target word, nothing, or a word of no tier.
EntryWords == {current_word, target_word, <<>>, <<NumLetters, NumLetters>>}

create_custom_ladder(start, target) ==
  /\ phase = "mainloop"
  /\ phase' = "handler"
  /\ IF Len(start) # Len(target)
     THEN /\ ret' = [Observe("create_custom_ladder") EXCEPT !.outcome = "length"]
          /\ UNCHANGED <<word_graph, current_word, target_word, moves>>
     ELSE IF ~(start \in dictionaries[game_mode] /\ target \in dictionaries[game_mode])
     THEN /\ ret' = [Observe("create_custom_ladder") EXCEPT !.outcome = "dictionary"]
          /\ UNCHANGED <<word_graph, current_word, target_word, moves>>
     ELSE LET r == check_path_exists(word_graph, start, target)
          IN /\ word_graph' = r.graph
             /\ ret' = [Observe("create_custom_ladder") EXCEPT
                          !.outcome = IF r.ret THEN "created" ELSE "no path",
                          !.start = start, !.target = target, !.exists = r.ret]
             /\ IF r.ret
                THEN /\ current_word' = start
                     /\ target_word' = target
                     /\ moves' = <<>>
                ELSE UNCHANGED <<current_word, target_word, moves>>
  /\ UNCHANGED <<dictionaries, max_moves, game_mode, banned_words, restricted_letters>>

get_hint(algorithm) ==
  /\ phase = "mainloop"
  /\ phase' = "handler"
  /\ LET r == RunSearch(algorithm, word_graph, current_word, target_word)
     IN /\ word_graph' = r.graph
        /\ ret' = [Observe("get_hint") EXCEPT
                     !.results = [a \in Algorithms |-> IF a = algorithm THEN r.ret ELSE NoPath],
                     !.outcome = algorithm,
                     !.hint = IF r.ret.found /\ Len(r.ret.path) > 1
                              THEN r.ret.path[2] ELSE <<>>]
  /\ UNCHANGED <<dictionaries, current_word, target_word, moves, max_moves, game_mode,
                 banned_words, restricted_letters>>

\* The three searches in the order of the handler's dict: A*, UCS, BFS.
show_algorithm_comparison ==
  /\ phase = "mainloop"
  /\ phase' = "handler"
  /\ LET a == a_star_search(word_graph, current_word, target_word)
         u == uniform_cost_search(a.graph, current_word, target_word)
         b == breadth_first_search(u.graph, current_word, target_word)
     IN /\ word_graph' = b.graph
        /\ ret' = [Observe("show_algorithm_comparison") EXCEPT
                     !.results = [x \in Algorithms |->
                                    CASE x = "A*" -> a.ret
                                      [] x = "UCS" -> u.ret
                                      [] OTHER -> b.ret]]
  /\ UNCHANGED <<dictionaries, current_word, target_word, moves, max_moves, game_mode,
                 banned_words, restricted_letters>>

\* The Multiplayer menu entry.  multiplayer_mode, current_player,
\* player_scores and score choose the texts and the numbers the handlers
\* show; no condition on the words, the moves or the graph reads them, and
\* they are left out of the state.
toggle_multiplayer ==
  /\ phase = "mainloop"
  /\ phase' = "handler"
  /\ \E s \in start_new_game(word_graph, dictionaries[game_mode], banned_words,
                             current_word, target_word) :
       /\ word_graph' = s.graph
       /\ current_word' = s.current_word
       /\ target_word' = s.target_word
       /\ ret' = [Observe("toggle_multiplayer") EXCEPT !.outcome = s.outcome]
  /\ moves' = <<>>
  /\ max_moves' = difficulty_levels[game_mode].max_moves
  /\ UNCHANGED <<dictionaries, game_mode, banned_words, restricted_letters>>

\* sum(1 for a, b in zip(self.current_word, new_word) if a != b)
diff_count(current, new_word) ==
  Cardinality({k \in 1..Min(Len(current), Len(new_word)) : current[k] # new_word[k]})

\* next(b for a, b in zip(self.current_word, new_word) if a != b)
changed_letter(current, new_word) ==
  new_word[CHOOSE k \in 1..Min(Len(current), Len(new_word)) :
             /\ current[k] # new_word[k]
             /\ \A j \in 1..(k - 1) : current[j] = new_word[j]]

is_valid_move(new_word) ==
  /\ new_word # <<>>
  /\ new_word \in dictionaries[game_mode]
  /\ new_word \notin banned_words
  /\ diff_count(current_word, new_word) = 1
  /\ game_mode = "Challenge" =>
       changed_letter(current_word, new_word) \notin restricted_letters

\* update_graph_visualization reads word_graph[word] for the current word,
\* the target word and the moves, unless one of the two words is empty.
update_graph_visualization(g, current, target, played) ==
  IF current = <<>> \/ target = <<>> THEN g
  ELSE [w \in DOMAIN g \cup {current, target} \cup Range(played) |-> Lookup(g, w)]

\* What the player types in the word entry: nothing, the target word, a
\* word already played, the word the default hint suggests, or a word of the
\* tier that has another length than the current word.
MoveEntries ==
  LET r == a_star_search(word_graph, current_word, target_word).ret
  IN {<<>>, target_word}
       \cup Range(moves)
       \cup (IF r.found /\ Len(r.path) > 1 THEN {r.path[2]} ELSE {})
       \cup {w \in dictionaries[game_mode] : Len(w) # Len(current_word)}

\* make_move with the test of the move budget before the test of the target.
make_move_budget_first(new_word) ==
  /\ phase = "mainloop"
  /\ phase' = "handler"
  /\ IF ~is_valid_move(new_word)
     THEN /\ ret' = [Observe("make_move") EXCEPT !.outcome = "invalid", !.word = new_word]
          /\ UNCHANGED <<word_graph, current_word, target_word, moves, max_moves>>
     ELSE LET played == Append(moves, new_word)
              g == update_graph_visualization(word_graph, new_word, target_word, played)
              seen == [Observe("make_move") EXCEPT !.word = new_word,
                         !.target = target_word,
                         !.count = Len(played), !.limit = max_moves]
          IN IF new_word = target_word \/ Len(played) >= max_moves
             THEN \E s \in start_new_game(g, dictionaries[game_mode], banned_words,
                                          new_word, target_word) :
                    /\ word_graph' = s.graph
                    /\ current_word' = s.current_word
                    /\ target_word' = s.target_word
                    /\ moves' = <<>>
                    /\ max_moves' = difficulty_levels[game_mode].max_moves
                    /\ ret' = [seen EXCEPT
                                 !.outcome = IF Len(played) >= max_moves
                                             THEN "max moves" ELSE "won"]
             ELSE /\ word_graph' = g
                  /\ current_word' = new_word
                  /\ moves' = played
                  /\ ret' = [seen EXCEPT !.outcome = "moved"]
                  /\ UNCHANGED <<target_word, max_moves>>
  /\ UNCHANGED <<dictionaries, game_mode, banned_words, restricted_letters>>

make_move(new_word) ==
  /\ phase = "mainloop"
  /\ phase' = "handler"
  /\ IF ~is_valid_move(new_word)
     THEN /\ ret' = [Observe("make_move") EXCEPT !.outcome = "invalid", !.word = new_word]
          /\ UNCHANGED <<word_graph, current_word, target_word, moves, max_moves>>
     ELSE LET played == Append(moves, new_word)
              g == update_graph_visualization(word_graph, new_word, target_word, played)
              seen == [Observe("make_move") EXCEPT !.word = new_word,
                         !.target = target_word,
                         !.count = Len(played), !.limit = max_moves]
          IN IF new_word = target_word \/ Len(played) >= max_moves
             THEN \E s \in start_new_game(g, dictionaries[game_mode], banned_words,
                                          new_word, target_word) :
                    /\ word_graph' = s.graph
                    /\ current_word' = s.current_word
                    /\ target_word' = s.target_word
                    /\ moves' = <<>>
                    /\ max_moves' = difficulty_levels[game_mode].max_moves
                    /\ ret' = [seen EXCEPT
                                 !.outcome = IF new_word = target_word
                                             THEN "won" ELSE "max moves"]
             ELSE /\ word_graph' = g
                  /\ current_word' = new_word
                  /\ moves' = played
                  /\ ret' = [seen EXCEPT !.outcome = "moved"]
                  /\ UNCHANGED <<target_word, max_moves>>
  /\ UNCHANGED <<dictionaries, game_mode, banned_words, restricted_letters>>

Next ==
  \/ run
  \/ mainloop
  \/ \E mode \in Modes : change_game_mode(mode)
  \/ new_game
  \/ \E start \in EntryWords, target \in EntryWords : create_custom_ladder(start, target)
  \/ \E algorithm \in Algorithms : get_hint(algorithm)
  \/ show_algorithm_comparison
  \/ toggle_multiplayer
  \/ \E new_word \in MoveEntries : make_move(new_word)

Spec == Init /\ [][Next]_vars

\* ------------------------------------------------------------ graph theory
\* The directed edges of a graph.
Edges(g) == {e \in (DOMAIN g) \X UNION {Range(g[w]) : w \in DOMAIN g} : e[2] \in Range(g[e[1]])}

\* The positions at which two words of one length differ.
Differ(u, v) == {k \in 1..Len(u) : u[k] # v[k]}
OneLetterApart(u, v) == Len(u) = Len(v) /\ Cardinality(Differ(u, v)) = 1
\* The position at which two words one letter apart differ.
Position(u, v) == CHOOSE k \in Differ(u, v) : TRUE

\* The least d such that goal is d edges away from a word of `frontier`, the
\* words of `seen` being nearer; -1 if there is none.
RECURSIVE Levels(_, _, _, _, _)
Levels(g, frontier, seen, goal, d) ==
  IF goal \in frontier THEN d
  ELSE IF frontier = {} THEN -1
  ELSE LET next == (UNION {Range(Lookup(g, w)) : w \in frontier}) \ seen
       IN Levels(g, next, seen \cup next, goal, d + 1)

\* The number of edges of a shortest directed path from start to goal.
Distance(g, start, goal) == Levels(g, {start}, {start}, goal, 0)
Reachable(g, start, goal) == Distance(g, start, goal) >= 0

\* ------------------------------------------------------------ observations
Built == ret.op \in {"run", "change_game_mode"} /\ ret.raised = "none"
Compared == ret.op = "show_algorithm_comparison"
\* The searches the last handler ran.
Ran == IF Compared THEN Algorithms
       ELSE IF ret.op = "get_hint" THEN {ret.outcome} ELSE {}
\* The last handler called check_path_exists(ret.start, ret.target).
Checked == ret.op = "create_custom_ladder" /\ ret.outcome \in {"created", "no path"}
Effective == EffectiveDict(dictionaries[game_mode], game_mode, banned_words)

\* ------------------------------------------------------------------ claims

\* C1: on the graph of build_word_graph and any (start, goal), A*, UCS and
\* BFS either all return no path or all return a path of the same cost.
C1_SameCost ==
  Compared =>
    \/ \A a \in Algorithms : ~ret.results[a].found
    \/ /\ \A a \in Algorithms : ret.results[a].found
       /\ \A a, b \in Algorithms : ret.results[a].cost = ret.results[b].cost

\* The three searches found paths of three edges.
C1_Witness ==
  /\ Compared
  /\ \A a \in Algorithms : ret.results[a].found /\ ret.results[a].cost = 3

\* C2: when goal is reachable from start, the cost breadth_first_search
\* returns is the least number of edges of a directed path from start to goal.
C2_BfsShortest ==
  ("BFS" \in Ran /\ Reachable(word_graph, current_word, target_word)) =>
    /\ ret.results["BFS"].found
    /\ ret.results["BFS"].cost = Distance(word_graph, current_word, target_word)

\* BFS answered for a goal three edges away.
C2_Witness ==
  /\ "BFS" \in Ran
  /\ Distance(word_graph, current_word, target_word) = 3
  /\ ret.results["BFS"].found

\* C3: a returned (cost, path) starts with start, ends with goal, has cost+1
\* words, changes exactly one letter at each step, and every word after the
\* first is in the effective dictionary.
WellFormed(r) ==
  /\ Len(r.path) = r.cost + 1
  /\ r.path[1] = current_word
  /\ r.path[Len(r.path)] = target_word
  /\ \A k \in 1..(Len(r.path) - 1) : OneLetterApart(r.path[k], r.path[k + 1])
  /\ \A k \in 2..Len(r.path) : r.path[k] \in Effective

C3_PathWellFormed ==
  \A a \in Ran : ret.results[a].found => WellFormed(ret.results[a])

\* Each of the three searches returned a path of two or more edges.
C3_Witness ==
  /\ Compared
  /\ \A a \in Algorithms : ret.results[a].found /\ ret.results[a].cost >= 2

\* The adjacency the specification gives: both words in the effective
\* dictionary, distinct, of one length, differing at one position, and in
\* Challenge mode the letter of v at that position not restricted.
AdjacentBySpec(u, v) ==
  /\ u \in Effective
  /\ v \in Effective
  /\ u # v
  /\ Len(u) = Len(v)
  /\ Cardinality(Differ(u, v)) = 1
  /\ game_mode = "Challenge" => v[Position(u, v)] \notin restricted_letters

\* The words a graph or the tier mentions.
Mentioned(g) ==
  dictionaries[game_mode] \cup DOMAIN g \cup UNION {Range(g[w]) : w \in DOMAIN g}

AdjacencyAsSpecified(g) ==
  \A u \in Mentioned(g), v \in Mentioned(g) :
    (v \in Range(Lookup(g, u))) <=> AdjacentBySpec(u, v)

\* C4: after build_word_graph, v is in the adjacency list of u exactly when
\* both are in the effective dictionary, u # v, they have one length and
\* differ at one position, and in Challenge mode the letter of v there is not
\* restricted.
C4_Adjacency ==
  Built => AdjacencyAsSpecified(ret.built) /\ AdjacencyAsSpecified(word_graph)

\* A Challenge build with an edge, and with two effective words one letter
\* apart that the restricted letters keep unconnected.
C4_Witness ==
  /\ Built
  /\ game_mode = "Challenge"
  /\ Edges(ret.built) # {}
  /\ \E u \in Effective, v \in Effective :
       OneLetterApart(u, v) /\ v \notin Range(Lookup(ret.built, u))

C6_ExistsIffPath ==
  /\ Checked =>
       /\ ret.exists = Reachable(word_graph, ret.start, ret.target)
       /\ \A a \in Algorithms :
            RunSearch(a, word_graph, ret.start, ret.target).ret.found = ret.exists
  /\ \A a \in Ran :
       ret.results[a].found = Reachable(word_graph, current_word, target_word)
  \* the loop of start_new_game breaks on check_path_exists alone
  /\ ret.outcome = "started" =>
       current_word # target_word /\ Reachable(word_graph, current_word, target_word)
  /\ ret.outcome = "no pair" =>
       current_word = target_word \/ ~Reachable(word_graph, current_word, target_word)

\* check_path_exists returned False for two words that have neighbours.
C6_Witness ==
  /\ Checked
  /\ ~ret.exists
  /\ Lookup(word_graph, ret.start) # <<>>
  /\ Lookup(word_graph, ret.target) # <<>>

\* C7: with start == goal each search returns cost 0 and path [start], and
\* check_path_exists returns true, also for a word that is no key of the graph.
C7_StartIsGoal ==
  /\ current_word = target_word =>
       \A a \in Ran : ret.results[a] = Found(0, <<current_word>>)
  /\ (Checked /\ ret.start = ret.target) => ret.exists

\* The three searches ran in Challenge mode from a banned word that is its
\* own goal and no key of the graph.
C7_Witness ==
  /\ Compared
  /\ current_word = target_word
  /\ game_mode = "Challenge"
  /\ current_word \in banned_words
  /\ current_word \notin DOMAIN word_graph

\* C8: a search or reachability query on words of different lengths ends
\* with an invalid-input signal, not with the ordinary "no path".
C8_MismatchRejected ==
  (/\ Len(current_word) # Len(target_word)
   /\ \/ Ran # {}
      \/ ret.outcome = "no pair")
    => ret.raised # "none"

\* C9: no call of a search or of check_path_exists changes word_graph.
C9_GraphUnchanged ==
  [][ret'.op \in {"get_hint", "show_algorithm_comparison", "create_custom_ladder"}
       => word_graph' = word_graph]_vars

\* C10 as claimed: after build_word_graph the keys of word_graph are the
\* words of the effective dictionary.
C10_TotalMapping ==
  Built => DOMAIN ret.built = Effective

\* C10, amended: after build_word_graph the keys of word_graph are the words
\* of the effective dictionary that have a neighbour; a word without one has
\* no key, and no word outside the effective dictionary is a key.
C10_KeysHaveNeighbour ==
  Built =>
    /\ DOMAIN ret.built = {w \in Effective : \E v \in Effective : AdjacentBySpec(w, v)}
    /\ \A w \in DOMAIN ret.built : ret.built[w] # <<>>

\* A build that gave some words a key and left an effective word without.
C10_Witness ==
  /\ Built
  /\ DOMAIN ret.built # {}
  /\ Effective \ DOMAIN ret.built # {}

\* The words of the effective dictionary the specification makes adjacent to w.
NeighboursBySpec(w) == {v \in Effective : AdjacentBySpec(w, v)}

\* C11: a build leaves exactly the edges derived from the current dictionary
\* and exclusion policy; no entry of the graph it found (of another tier, of
\* another sample, or inserted by a search) survives it.
C11_NothingSurvives ==
  Built =>
    /\ \A w \in DOMAIN ret.built :
         /\ ret.built[w] # <<>>
         /\ Range(ret.built[w]) = NeighboursBySpec(w)
         /\ Len(ret.built[w]) = Cardinality(NeighboursBySpec(w))
    /\ \A w \in Effective : NeighboursBySpec(w) # {} => w \in DOMAIN ret.built

\* A build that found a graph with an entry of an earlier build and an entry
\* a search had inserted, kept neither, and made a graph with edges.
C11_Witness ==
  /\ Built
  /\ Edges(ret.built) # {}
  /\ ret.dropped = {"built", "inserted"}

\* C12: a build from an empty dictionary raises nothing in any mode and gives
\* the empty graph, and every later search or reachability query on it finds
\* no path unless start == goal.
C12_EmptyBuildSucceeds ==
  dictionaries[game_mode] = {} =>
    /\ ret.op \in {"run", "change_game_mode"} =>
         ret.raised = "none" /\ ret.built = EmptyGraph
    /\ \A a \in Ran : ret.results[a].found => current_word = target_word
    /\ (Checked /\ ret.exists) => ret.start = ret.target

\* C13: outside Challenge mode banned_words and restricted_letters are empty,
\* also after a switch from Challenge to another mode.
C13_NoPolicyOutsideChallenge ==
  game_mode # "Challenge" => banned_words = {} /\ restricted_letters = {}

\* The undirected pairs of a set of directed edges.
BothWays(pairs) == pairs \cup {<<e[2], e[1]>> : e \in pairs}

\* C15 as claimed: the graph of {cat, bat, hat, hot, dot} without exclusion
\* policy has exactly the pairs cat-bat, cat-hat, hat-hot, hot-dot.
C15_ExampleAdjacency ==
  (Built /\ dictionaries[game_mode] = ExampleWords) =>
    Edges(ret.built) =
      BothWays({<<cat, bat>>, <<cat, hat>>, <<hat, hot>>, <<hot, dot>>})

\* C15, amended: the graph of {cat, bat, hat, hot, dot} without exclusion
\* policy has exactly the pairs cat-bat, cat-hat, bat-hat, hat-hot, hot-dot.
C15_ExampleAdjacencyWithBatHat ==
  (Built /\ dictionaries[game_mode] = ExampleWords) =>
    Edges(ret.built) =
      BothWays({<<cat, bat>>, <<cat, hat>>, <<bat, hat>>, <<hat, hot>>, <<hot, dot>>})

\* The graph of the example was built, with bat and hat adjacent.
C15_Witness ==
  /\ Built
  /\ dictionaries[game_mode] = ExampleWords
  /\ banned_words = {}
  /\ restricted_letters = {}
  /\ <<bat, hat>> \in Edges(ret.built)

\* The tier of the mode has words, all of length 1.
LengthOneTier ==
  /\ dictionaries[game_mode] # {}
  /\ \A w \in dictionaries[game_mode] : Len(w) = 1

C14_AlwaysSolvable ==
  (/\ ret.op \in {"run", "start_new_game", "change_game_mode", "toggle_multiplayer",
                  "create_custom_ladder"}
   /\ ret.raised = "none")
    => Reachable(word_graph, current_word, target_word)

\* C17: after run(), in every mode and after any mode changes and rebuilds,
\* is_valid_move(w) holds exactly for the words w of word_graph[current_word].
C17_MoveRuleIsGraph ==
  phase # "constructed" =>
    \A w \in Mentioned(word_graph) \cup {<<>>} :
      is_valid_move(w) <=> w \in Range(Lookup(word_graph, current_word))

\* C18: if target_word is reachable from current_word and make_move accepts
\* a word that is not the target and does not end the game, target_word is
\* reachable from the new current_word.
C18_StaysSolvable ==
  [][(/\ ret'.op = "make_move"
      /\ ret'.outcome = "moved"
      /\ Reachable(word_graph, current_word, target_word))
       => Reachable(word_graph', current_word', target_word')]_vars

\* C19: get_hint returns None only when current_word == target_word or the
\* target is unreachable; otherwise it returns a word that is_valid_move
\* accepts and that is one edge nearer to target_word than current_word.
C19_HintIsBestMove ==
  ret.op = "get_hint" =>
    /\ ret.hint = <<>> =>
         \/ current_word = target_word
         \/ ~Reachable(word_graph, current_word, target_word)
    /\ ret.hint # <<>> =>
         /\ is_valid_move(ret.hint)
         /\ Distance(word_graph, ret.hint, target_word)
              = Distance(word_graph, current_word, target_word) - 1

\* C20: after every operation that follows run(), len(moves) < max_moves; a
\* make_move whose moves reach max_moves ends and resets the game in the same
\* call, and reaching the target with that move is a win.
C20_MoveBudget ==
  /\ phase # "constructed" => Len(moves) < max_moves
  /\ (ret.op = "make_move" /\ ret.outcome # "invalid" /\ ret.count >= ret.limit) =>
       /\ moves = <<>>
       /\ ret.outcome = IF ret.word = ret.target THEN "won" ELSE "max moves"

\* A move used up the budget without reaching the target, and the game was
\* reset.
C20_Witness ==
  /\ ret.op = "make_move"
  /\ ret.outcome = "max moves"
  /\ ret.count = ret.limit
  /\ ret.limit = max_moves
  /\ moves = <<>>

====
